---- MODULE Spec2Model ----
(***************************************************************************)
(* Model of data_ingestion_dag: the five-stage ingestion pipeline          *)
(*   sense_file >> extract_data >> validate_data                           *)
(*              >> calculate_and_log_statistics >> load_data               *)
(* File names are sequences of tokens so that glob('*.csv'), the           *)
(* "'_checked' not in f" filter and str.replace('.csv', '_checked.csv')    *)
(* are computed on the name as the code computes them.                     *)
(***************************************************************************)
EXTENDS Integers, Sequences, FiniteSets, TLC

VARIABLES
    fs,                  \* monitored directory: path -> [id, content]
    nextId,              \* identity given to the next arriving file
    dagState,            \* "idle" | "running" | "success" | "failed"
    ts,                  \* task instance state, per task of the current run
    tries,               \* task instance try_number, per task
    err,                 \* exception that ended the last failed try of the run
    pc,                  \* position inside the running callable, "-" if none
    elapsed,             \* seconds the sensor has been poking
    xcom,                \* XCom (extract_data, 'extracted_rows') of this run
    csv_files,           \* extract_data: list built by the glob
    idx,                 \* loop index of the running callable
    rows,                \* value returned by xcom_pull in the running callable
    statistics,          \* calculate_and_log_statistics: the statistics frame
    checkpoint_result,   \* validate_data: outcome of checkpoint.run()
    conn,                \* target_conn of the running stage
    cursor,              \* target_cursor of the running stage
    txn,                 \* open transaction of target_conn
    feature_statistics,  \* committed rows of public.feature_statistics
    target_predictions,  \* committed rows of public.target_predictions
    hist                 \* history: what the callables did (reads, renames, ...)

vars == <<fs, nextId, dagState, ts, tries, err, pc, elapsed, xcom,
          csv_files, idx, rows, statistics, checkpoint_result, conn, cursor,
          txn, feature_statistics, target_predictions, hist>>

----------------------------------------------------------------------------
(* Bounds of the model *)

MaxArrivals == 2
MaxClears == 1
MaxBatch == 3

(* Program constants *)

retries == 1
poke_interval == 10
timeout == 600

MONITOR_DIR == <<"/mon/">>

Tasks == <<"sense_file", "extract_data", "validate_data",
           "calculate_and_log_statistics", "load_data">>

TaskIds == {Tasks[i] : i \in 1..Len(Tasks)}

IndexOf(t) == CHOOSE i \in 1..Len(Tasks) : Tasks[i] = t

\* columns named by the INSERT of load_data, in statement order
KeySeq == <<"Foundation_BrkTil", "Foundation_CBlock", "Foundation_PConc",
            "Foundation_Slab", "Foundation_Stone", "Foundation_Wood",
            "KitchenQual_Ex", "KitchenQual_Fa", "KitchenQual_Gd",
            "KitchenQual_TA", "TotRmsAbvGrd", "WoodDeckSF", "YrSold",
            "1stFlrSF">>

RequiredKeys == {KeySeq[i] : i \in 1..Len(KeySeq)}

\* what xcom_pull returns when nothing was pushed, and a pushed value
None == [has |-> FALSE, value |-> <<>>]
Some(v) == [has |-> TRUE, value |-> v]

\* a table that does not exist, and an existing table with its rows
Absent == [exists |-> FALSE, rows |-> <<>>]
Table(rs) == [exists |-> TRUE, rows |-> rs]

NaN == [num |-> 0, den |-> 0]

----------------------------------------------------------------------------
(* Generic helpers *)

RECURSIVE SeqSum(_)
SeqSum(s) == IF s = <<>> THEN 0 ELSE Head(s) + SeqSum(Tail(s))

Orderings(S) ==
    {s \in [1..Cardinality(S) -> S] : \A i, j \in 1..Cardinality(S) :
                                          i # j => s[i] # s[j]}

Contains(s, tok) == \E i \in 1..Len(s) : s[i] = tok

----------------------------------------------------------------------------
(* File names *)

DotTokens == {".csv", ".txt"}

\* glob.glob(os.path.join(MONITOR_DIR, '*.csv')): entries of the directory
\* that end in .csv; '*' does not match a leading dot
GlobCsv(p) ==
    /\ Len(p) >= Len(MONITOR_DIR) + 2
    /\ SubSeq(p, 1, Len(MONITOR_DIR)) = MONITOR_DIR
    /\ p[Len(p)] = ".csv"
    /\ p[Len(MONITOR_DIR) + 1] \notin DotTokens

\* the filter of the list comprehension: '_checked' not in f
NotChecked(p) == ~Contains(p, "_checked")

Qualifies(p) == GlobCsv(p) /\ NotChecked(p)

RECURSIVE ReplaceCsv(_)
ReplaceCsv(p) ==
    IF p = <<>> THEN <<>>
    ELSE IF Head(p) = ".csv"
         THEN <<"_checked", ".csv">> \o ReplaceCsv(Tail(p))
         ELSE <<Head(p)>> \o ReplaceCsv(Tail(p))

NewFilePathUnmarked(file_path) == file_path

\* new_file_path = file_path.replace('.csv', '_checked.csv')
NewFilePath(file_path) == ReplaceCsv(file_path)

\* os.rename(src, dst): dst is replaced when it exists
OsRename(f, src, dst) ==
    [p \in (DOMAIN f \ {src}) \cup {dst} |-> IF p = dst THEN f[src] ELSE f[p]]

Path(name) == MONITOR_DIR \o name

\* files the upstream producer may drop: path and content
Arrivals == {<<Path(<<"a", ".csv">>), "F1">>,
             <<Path(<<"a", ".csv">>), "F3">>,
             <<Path(<<"b", ".csv", ".csv">>), "F2">>,
             <<Path(<<"b", ".csv", ".csv">>), "BAD">>}

InitialPaths == {Path(<<"a", "_checked", ".csv">>), Path(<<"notes", ".txt">>)}

----------------------------------------------------------------------------
(* File contents and rows *)

FullRow(v) == [k \in RequiredKeys |-> v]

PartRow(v) == [k \in RequiredKeys \ {"YrSold"} |-> v]

\* pd.read_csv(file_path): the raw frame of a file; "BAD" is a file on which
\* read_csv or the selection df_raw[FEATURE_COLUMNS] raises
Readable(c) == c # "BAD"

ReadCsv(c) ==
    CASE c = "F1" -> [values |-> <<1, 3>>, allCategories |-> TRUE]
      [] c = "F2" -> [values |-> <<2>>, allCategories |-> TRUE]
      [] c = "F3" -> [values |-> <<4, 6>>, allCategories |-> FALSE]
      [] OTHER    -> [values |-> <<>>, allCategories |-> TRUE]

\* preprocess(df, is_training=False).to_dict(orient='records'): one record
\* per raw row, every record of a frame with the same columns
preprocess(df) ==
    [i \in 1..Len(df.values) |->
        IF df.allCategories THEN FullRow(df.values[i])
                            ELSE PartRow(df.values[i])]

----------------------------------------------------------------------------
(* Scheduler: task instances of one DAG run *)

envVars == <<fs, nextId>>
schedVars == <<dagState, ts, tries, err>>
localVars == <<csv_files, idx, rows, statistics, checkpoint_result, txn>>
connVars == <<conn, cursor>>
dbVars == <<feature_statistics, target_predictions>>

EmptyTxn == [ops |-> <<>>, aborted |-> FALSE]

Running(t) == ts[t] = "running"

EntryPc(t) ==
    CASE t = "sense_file" -> "poke"
      [] t = "extract_data" -> "ex_list"
      [] t = "validate_data" -> "va_context"
      [] t = "calculate_and_log_statistics" -> "st_pull"
      [] OTHER -> "ld_pull"

\* the locals of a callable do not outlive its call
DropLocals ==
    /\ csv_files' = <<>>
    /\ idx' = 0
    /\ rows' = None
    /\ statistics' = <<>>
    /\ checkpoint_result' = "none"
    /\ txn' = EmptyTxn

UpstreamAny(t) == TRUE

\* sense_file >> extract_data >> validate_data >> calculate >> load_data,
\* default trigger rule: the direct upstream task has succeeded
UpstreamDone(t) ==
    IF IndexOf(t) = 1 THEN TRUE ELSE ts[Tasks[IndexOf(t) - 1]] = "success"

\* schedule=None: a run is triggered manually
Trigger ==
    /\ dagState = "idle"
    /\ dagState' = "running"
    /\ ts' = [t \in TaskIds |-> "none"]
    /\ tries' = [t \in TaskIds |-> 0]
    /\ err' = "none"
    /\ pc' = "-"
    /\ elapsed' = 0
    /\ xcom' = None
    /\ conn' = "none" /\ cursor' = "none"
    /\ UNCHANGED <<envVars, localVars, dbVars, hist>>

\* a try of task t starts: a fresh process, the task's XComs are cleared
Start(t) ==
    /\ dagState = "running"
    /\ pc = "-"
    /\ ts[t] \in {"none", "up_for_retry"}
    /\ \A u \in TaskIds : ~Running(u)
    /\ UpstreamDone(t)
    /\ ts' = [ts EXCEPT ![t] = "running"]
    /\ tries' = [tries EXCEPT ![t] = @ + 1]
    /\ err' = "none"
    /\ pc' = EntryPc(t)
    /\ elapsed' = 0
    /\ xcom' = IF t = "extract_data" THEN None ELSE xcom
    /\ conn' = "none" /\ cursor' = "none"
    /\ UNCHANGED <<envVars, dagState, localVars, dbVars, hist>>

RaiseTwoRetries(t, e) ==
    /\ pc' = "-"
    /\ err' = e
    /\ IF tries[t] <= retries + 1
       THEN /\ ts' = [ts EXCEPT ![t] = "up_for_retry"]
            /\ dagState' = dagState
       ELSE /\ ts' = [u \in TaskIds |->
                        IF u = t THEN "failed"
                        ELSE IF IndexOf(u) > IndexOf(t) THEN "upstream_failed"
                        ELSE ts[u]]
            /\ dagState' = "failed"
    /\ DropLocals
    /\ UNCHANGED <<tries, connVars>>

\* the callable raised e: retried while tries remain, else the run fails;
\* its locals are gone and the server rolls back the open transaction, the
\* connection objects are left as the callable left them
Raise(t, e) ==
    /\ pc' = "-"
    /\ err' = e
    /\ IF tries[t] <= retries
       THEN /\ ts' = [ts EXCEPT ![t] = "up_for_retry"]
            /\ dagState' = dagState
       ELSE /\ ts' = [u \in TaskIds |->
                        IF u = t THEN "failed"
                        ELSE IF IndexOf(u) > IndexOf(t) THEN "upstream_failed"
                        ELSE ts[u]]
            /\ dagState' = "failed"
    /\ DropLocals
    /\ UNCHANGED <<tries, connVars>>

\* the callable returned: the task instance succeeds
TaskReturn ==
    /\ pc = "return"
    /\ \E t \in TaskIds :
         /\ Running(t)
         /\ ts' = [ts EXCEPT ![t] = "success"]
         /\ dagState' = IF t = Tasks[Len(Tasks)] THEN "success" ELSE dagState
         /\ hist' = IF t = "extract_data"
                    THEN [hist EXCEPT !.lastExtractOk = TRUE]
                    ELSE hist
    /\ pc' = "-"
    /\ DropLocals
    /\ UNCHANGED <<envVars, tries, err, elapsed, xcom, connVars, dbVars>>

----------------------------------------------------------------------------
(* Environment: the upstream producer drops a file; nothing after          *)
(* extract_data reads the directory, so later arrivals are those of the    *)
(* next run                                                                *)

Arrive ==
    /\ hist.arrivals < MaxArrivals
    /\ dagState \in {"idle", "running"}
    /\ pc \in {"-", "poke", "ex_rename"}
    /\ ts["extract_data"] \in {"none", "up_for_retry", "running"}
    /\ \E a \in Arrivals :
         /\ a[1] \notin DOMAIN fs
         /\ fs' = [q \in DOMAIN fs \cup {a[1]} |->
                    IF q = a[1] THEN [id |-> nextId, content |-> a[2]]
                    ELSE fs[q]]
    /\ nextId' = nextId + 1
    /\ hist' = [hist EXCEPT !.arrivals = @ + 1,
                            !.arrivedSinceList = TRUE]
    /\ UNCHANGED <<schedVars, pc, elapsed, xcom, localVars, connVars, dbVars>>

----------------------------------------------------------------------------
(* sense_file: FileSensor(filepath=MONITOR_DIR, poke_interval, timeout) *)

\* FileSensor.poke on a directory: true when the directory holds any file
FileSensorPoke(f) ==
    \E p \in DOMAIN f : SubSeq(p, 1, Len(MONITOR_DIR)) = MONITOR_DIR

SenseFound ==
    /\ Running("sense_file") /\ pc = "poke"
    /\ FileSensorPoke(fs)
    /\ pc' = "return"
    /\ UNCHANGED <<envVars, schedVars, elapsed, xcom, localVars, connVars,
                   dbVars, hist>>

SenseSleepForever ==
    /\ Running("sense_file") /\ pc = "poke"
    /\ ~FileSensorPoke(fs)
    /\ elapsed <= timeout
    /\ elapsed' = elapsed
    /\ UNCHANGED <<envVars, schedVars, pc, xcom, localVars, connVars, dbVars,
                   hist>>

\* time.sleep(poke_interval) after a poke that found nothing
SenseSleep ==
    /\ Running("sense_file") /\ pc = "poke"
    /\ ~FileSensorPoke(fs)
    /\ elapsed <= timeout
    /\ elapsed' = elapsed + poke_interval
    /\ UNCHANGED <<envVars, schedVars, pc, xcom, localVars, connVars, dbVars,
                   hist>>

SenseTimeoutIgnored ==
    /\ Running("sense_file") /\ pc = "poke"
    /\ ~FileSensorPoke(fs)
    /\ elapsed > timeout
    /\ pc' = "return"
    /\ UNCHANGED <<envVars, schedVars, elapsed, xcom, localVars, connVars,
                   dbVars, hist>>

\* AirflowSensorTimeout fails the task at once, whatever retries remain
SenseTimeout ==
    /\ Running("sense_file") /\ pc = "poke"
    /\ ~FileSensorPoke(fs)
    /\ elapsed > timeout
    /\ pc' = "-"
    /\ err' = "AirflowSensorTimeout"
    /\ ts' = [u \in TaskIds |->
                IF u = "sense_file" THEN "failed" ELSE "upstream_failed"]
    /\ dagState' = "failed"
    /\ UNCHANGED <<envVars, tries, elapsed, xcom, localVars, connVars, dbVars,
                   hist>>

----------------------------------------------------------------------------
(* extract_data *)

\* csv_files: the glob, filtered; the order of a glob is that of the
\* directory scan
ExtractList ==
    /\ Running("extract_data") /\ pc = "ex_list"
    /\ \E order \in Orderings({p \in DOMAIN fs : Qualifies(p)}) :
         /\ csv_files' = order
         /\ IF order = <<>>
            THEN pc' = "return" /\ idx' = idx
            ELSE pc' = "ex_read" /\ idx' = 1
    /\ hist' = [hist EXCEPT !.arrivedSinceList = FALSE,
                            !.lastExtractOk = FALSE,
                            !.noop = (\A p \in DOMAIN fs : ~Qualifies(p))]
    /\ UNCHANGED <<envVars, schedVars, elapsed, xcom, rows, statistics,
                   checkpoint_result, txn, connVars, dbVars>>

\* ti.xcom_push(key='extracted_rows', value=...): the value stored under
\* (run, task, key) is replaced
XComPush(old, value) == Some(value)

\* read_csv, preprocess and xcom_push of csv_files[idx]
ExtractRead ==
    /\ Running("extract_data") /\ pc = "ex_read"
    /\ LET file_path == csv_files[idx] IN
         /\ file_path \in DOMAIN fs
         /\ Readable(fs[file_path].content)
         /\ xcom' = XComPush(xcom, preprocess(ReadCsv(fs[file_path].content)))
    /\ pc' = "ex_rename"
    /\ UNCHANGED <<envVars, schedVars, elapsed, localVars, connVars, dbVars,
                   hist>>

ExtractReadRaiseMarked ==
    /\ Running("extract_data") /\ pc = "ex_read"
    /\ LET file_path == csv_files[idx] IN
         /\ file_path \in DOMAIN fs
         /\ ~Readable(fs[file_path].content)
         /\ fs' = OsRename(fs, file_path, NewFilePath(file_path))
         /\ hist' = [hist EXCEPT !.marked = @ \cup {fs[file_path].id}]
    /\ Raise("extract_data", "ReadError")
    /\ UNCHANGED <<nextId, elapsed, xcom, dbVars>>

\* read_csv / df_raw[FEATURE_COLUMNS] / preprocess raises
ExtractReadRaise ==
    /\ Running("extract_data") /\ pc = "ex_read"
    /\ LET file_path == csv_files[idx] IN
         /\ file_path \in DOMAIN fs
         /\ ~Readable(fs[file_path].content)
    /\ Raise("extract_data", "ReadError")
    /\ hist' = [hist EXCEPT !.unfinished = @ \cup {fs[csv_files[idx]].id}]
    /\ UNCHANGED <<envVars, elapsed, xcom, dbVars>>

\* os.rename(file_path, new_file_path), then the next file
ExtractRename ==
    /\ Running("extract_data") /\ pc = "ex_rename"
    /\ LET file_path == csv_files[idx] IN
         /\ fs' = OsRename(fs, file_path, NewFilePath(file_path))
         /\ hist' = [hist EXCEPT !.marked = @ \cup {fs[file_path].id},
                                 !.unfinished = @ \ {fs[file_path].id}]
    /\ idx' = idx + 1
    /\ pc' = IF idx + 1 > Len(csv_files) THEN "return" ELSE "ex_read"
    /\ UNCHANGED <<nextId, schedVars, elapsed, xcom, csv_files, rows,
                   statistics, checkpoint_result, txn, connVars, dbVars>>

\* os.rename raises OSError
ExtractRenameRaise ==
    /\ Running("extract_data") /\ pc = "ex_rename"
    /\ Raise("extract_data", "OSError")
    /\ hist' = [hist EXCEPT !.unfinished = @ \cup {fs[csv_files[idx]].id}]
    /\ UNCHANGED <<envVars, elapsed, xcom, dbVars>>

----------------------------------------------------------------------------
(* validate_data *)

ValidationErrors == {"DataContextError", "CheckpointError", "IndexError"}

\* every exception the validation engine raises derives from Exception
IsInstance(e, cls) == cls = e \/ cls = "Exception"

CaughtContextOnly(e) == IsInstance(e, "DataContextError")

\* except DataContextError ... except Exception ...
Caught(e) == IsInstance(e, "DataContextError") \/ IsInstance(e, "Exception")

\* DataContext(...), get_validator, get_checkpoint
ValidateContext ==
    /\ Running("validate_data") /\ pc = "va_context"
    /\ pc' = "va_checkpoint"
    /\ UNCHANGED <<envVars, schedVars, elapsed, xcom, localVars, connVars,
                   dbVars, hist>>

\* checkpoint.run() and the logging of checkpoint_result["success"]
ValidateCheckpoint ==
    /\ Running("validate_data") /\ pc = "va_checkpoint"
    /\ \E success \in BOOLEAN :
         /\ checkpoint_result' = IF success THEN "passed" ELSE "failed"
         /\ hist' = [hist EXCEPT !.notPassed = ~success]
    /\ pc' = "va_docs"
    /\ UNCHANGED <<envVars, schedVars, elapsed, xcom, csv_files, idx, rows,
                   statistics, txn, connVars, dbVars>>

\* build_data_docs, list_validation_result_identifiers()[0], open_data_docs
ValidateDocs ==
    /\ Running("validate_data") /\ pc = "va_docs"
    /\ pc' = "return"
    /\ UNCHANGED <<envVars, schedVars, elapsed, xcom, localVars, connVars,
                   dbVars, hist>>

\* a call inside the try block raises e
ValidateExcept ==
    /\ Running("validate_data")
    /\ \E e \in ValidationErrors :
         /\ \/ pc = "va_context" /\ e = "DataContextError"
            \/ pc = "va_checkpoint" /\ e = "CheckpointError"
            \/ pc = "va_docs" /\ e = "IndexError"
         /\ IF Caught(e)
            THEN /\ pc' = "return"
                 /\ UNCHANGED <<schedVars, localVars, connVars>>
            ELSE Raise("validate_data", e)
    /\ hist' = [hist EXCEPT !.notPassed = TRUE]
    /\ UNCHANGED <<envVars, elapsed, xcom, dbVars>>

----------------------------------------------------------------------------
(* Database: one psycopg2 connection, autocommit off *)

RECURSIVE ApplyOpsTruncating(_, _, _)
ApplyOpsTruncating(ops, name, table) ==
    IF ops = <<>> THEN table
    ELSE LET op == Head(ops)
             next == IF op.table # name THEN table
                     ELSE IF op.kind = "create"
                          THEN Table(<<>>)
                          ELSE Table(Append(table.rows, op.row))
         IN ApplyOpsTruncating(Tail(ops), name, next)

\* the effect of the statements of a transaction on a table: CREATE TABLE
\* IF NOT EXISTS leaves an existing table alone, INSERT appends a row
RECURSIVE ApplyOps(_, _, _)
ApplyOps(ops, name, table) ==
    IF ops = <<>> THEN table
    ELSE LET op == Head(ops)
             next == IF op.table # name THEN table
                     ELSE IF op.kind = "create"
                          THEN (IF table.exists THEN table ELSE Table(<<>>))
                          ELSE Table(Append(table.rows, op.row))
         IN ApplyOps(Tail(ops), name, next)

RolledBack(t, name, table) == table

\* COMMIT: the statements of the transaction become visible; a COMMIT of
\* an aborted transaction rolls back
Committed(t, name, table) ==
    IF t.aborted THEN table ELSE ApplyOps(t.ops, name, table)

CreateTable(name) == [kind |-> "create", table |-> name, row |-> <<>>]

InsertInto(name, row) == [kind |-> "insert", table |-> name, row |-> row]

ExecuteReplacing(t, op) == [t EXCEPT !.ops = <<op>>]

\* cursor.execute inside the open transaction
Execute(t, op) == [t EXCEPT !.ops = Append(@, op)]

----------------------------------------------------------------------------
(* calculate_and_log_statistics and log_statistics_to_postgres *)

\* columns of pd.DataFrame(rows)
Columns(rs) ==
    SelectSeq(KeySeq, LAMBDA k : \E i \in 1..Len(rs) : k \in DOMAIN rs[i])

ColumnValues(rs, k) ==
    LET having == SelectSeq(rs, LAMBDA r : k \in DOMAIN r)
    IN [i \in 1..Len(having) |-> having[i][k]]

\* describe().loc['mean'] as the fraction num/den
Mean(xs) == [num |-> SeqSum(xs), den |-> Len(xs)]

VariancePopulation(xs) ==
    [num |-> Len(xs) * SeqSum([i \in 1..Len(xs) |-> xs[i] * xs[i]])
               - SeqSum(xs) * SeqSum(xs),
     den |-> Len(xs) * Len(xs)]

\* describe().loc['std'] ** 2: the sample variance as the fraction num/den,
\* NaN for fewer than two values
Variance(xs) ==
    IF Len(xs) < 2 THEN NaN
    ELSE [num |-> Len(xs) * SeqSum([i \in 1..Len(xs) |-> xs[i] * xs[i]])
                    - SeqSum(xs) * SeqSum(xs),
          den |-> Len(xs) * (Len(xs) - 1)]

Describe(rs) ==
    LET cols == Columns(rs)
    IN [i \in 1..Len(cols) |->
          [feature_name |-> cols[i],
           mean |-> Mean(ColumnValues(rs, cols[i])),
           variance |-> Variance(ColumnValues(rs, cols[i]))]]

\* xcom_pull, DataFrame(rows), describe(): describe raises ValueError on a
\* frame without columns
StatsPull ==
    /\ Running("calculate_and_log_statistics") /\ pc = "st_pull"
    /\ IF Columns(xcom.value) = <<>>
       THEN Raise("calculate_and_log_statistics", "ValueError")
       ELSE /\ rows' = xcom
            /\ statistics' = Describe(xcom.value)
            /\ pc' = "st_conn"
            /\ UNCHANGED <<schedVars, csv_files, idx, checkpoint_result, txn,
                           connVars>>
    /\ UNCHANGED <<envVars, elapsed, xcom, dbVars, hist>>

\* target_hook.get_conn(), target_conn.cursor()
StatsConnect ==
    /\ Running("calculate_and_log_statistics") /\ pc = "st_conn"
    /\ conn' = "open" /\ cursor' = "open" /\ txn' = EmptyTxn
    /\ pc' = "st_create"
    /\ UNCHANGED <<envVars, schedVars, elapsed, xcom, csv_files, idx, rows,
                   statistics, checkpoint_result, dbVars, hist>>

\* CREATE TABLE IF NOT EXISTS public.feature_statistics
StatsCreate ==
    /\ Running("calculate_and_log_statistics") /\ pc = "st_create"
    /\ txn' = Execute(txn, CreateTable("feature_statistics"))
    /\ idx' = 1
    /\ pc' = "st_insert"
    /\ UNCHANGED <<envVars, schedVars, elapsed, xcom, csv_files, rows,
                   statistics, checkpoint_result, connVars, dbVars, hist>>

\* for feature, row in statistics.iterrows(): INSERT INTO feature_statistics
StatsInsert ==
    /\ Running("calculate_and_log_statistics") /\ pc = "st_insert"
    /\ txn' = Execute(txn, InsertInto("feature_statistics", statistics[idx]))
    /\ idx' = idx + 1
    /\ pc' = IF idx + 1 > Len(statistics) THEN "st_commit" ELSE "st_insert"
    /\ UNCHANGED <<envVars, schedVars, elapsed, xcom, csv_files, rows,
                   statistics, checkpoint_result, connVars, dbVars, hist>>

\* get_conn or an execute raises (database unreachable, connection lost):
\* nothing in log_statistics_to_postgres catches it
StatsDbRaise ==
    /\ Running("calculate_and_log_statistics")
    /\ pc \in {"st_conn", "st_create", "st_insert"}
    /\ Raise("calculate_and_log_statistics", "OperationalError")
    /\ UNCHANGED <<envVars, elapsed, xcom, dbVars, hist>>

\* target_conn.commit()
StatsCommit ==
    /\ Running("calculate_and_log_statistics") /\ pc = "st_commit"
    /\ feature_statistics' =
           Committed(txn, "feature_statistics", feature_statistics)
    /\ txn' = EmptyTxn
    /\ pc' = "st_close"
    /\ hist' = [hist EXCEPT !.commits = @ + 1]
    /\ UNCHANGED <<envVars, schedVars, elapsed, xcom, csv_files, idx, rows,
                   statistics, checkpoint_result, connVars,
                   target_predictions>>

\* target_conn.commit() raises: the server has either not received the
\* COMMIT, or applied it before the connection was lost
StatsCommitRaise ==
    /\ Running("calculate_and_log_statistics") /\ pc = "st_commit"
    /\ \E applied \in BOOLEAN :
         /\ feature_statistics' =
                IF applied
                THEN Committed(txn, "feature_statistics", feature_statistics)
                ELSE feature_statistics
         /\ hist' = [hist EXCEPT !.commits = IF applied THEN @ + 1 ELSE @]
    /\ Raise("calculate_and_log_statistics", "OperationalError")
    /\ UNCHANGED <<envVars, elapsed, xcom, target_predictions>>

\* target_cursor.close(); target_conn.close()
StatsClose ==
    /\ Running("calculate_and_log_statistics") /\ pc = "st_close"
    /\ cursor' = "closed" /\ conn' = "closed"
    /\ pc' = "return"
    /\ UNCHANGED <<envVars, schedVars, elapsed, xcom, localVars, dbVars, hist>>

----------------------------------------------------------------------------
(* load_data *)

HasRequiredKeys(row) == RequiredKeys \subseteq DOMAIN row

\* the tuple bound to the INSERT: row[k] for each named column; the two
\* columns the statement does not name stay NULL
InsertValues(row) ==
    [c \in RequiredKeys \cup {"SalePrice", "PredictionTimestamp"} |->
        IF c \in RequiredKeys THEN row[c] ELSE 0]

\* rows = ti.xcom_pull(key='extracted_rows', task_ids='extract_data')
LoadPull ==
    /\ Running("load_data") /\ pc = "ld_pull"
    /\ rows' = xcom
    /\ pc' = "ld_conn"
    /\ UNCHANGED <<envVars, schedVars, elapsed, xcom, csv_files, idx,
                   statistics, checkpoint_result, txn, connVars, dbVars, hist>>

\* target_hook.get_conn(), target_conn.cursor()
LoadConnect ==
    /\ Running("load_data") /\ pc = "ld_conn"
    /\ conn' = "open" /\ cursor' = "open" /\ txn' = EmptyTxn
    /\ pc' = "ld_create"
    /\ UNCHANGED <<envVars, schedVars, elapsed, xcom, csv_files, idx, rows,
                   statistics, checkpoint_result, dbVars, hist>>

\* CREATE TABLE IF NOT EXISTS public.target_predictions, then len(rows),
\* which raises TypeError when nothing was pulled
LoadCreate ==
    /\ Running("load_data") /\ pc = "ld_create"
    /\ IF ~rows.has
       THEN Raise("load_data", "TypeError")
       ELSE /\ txn' = Execute(txn, CreateTable("target_predictions"))
            /\ idx' = 1
            /\ pc' = IF Len(rows.value) = 0 THEN "ld_commit" ELSE "ld_insert"
            /\ UNCHANGED <<schedVars, csv_files, rows, statistics,
                           checkpoint_result, connVars>>
    /\ UNCHANGED <<envVars, elapsed, xcom, dbVars, hist>>

AfterFirstRow(i, n) == "ld_commit"

\* "for row in rows" runs to the end of the batch before target_conn.commit()
AfterRow(i, n) == IF i + 1 > n THEN "ld_commit" ELSE "ld_insert"

\* one pass of "for row in rows: try: execute(INSERT ...) except Exception":
\* a missing key raises KeyError before the statement is sent; a statement
\* sent in an aborted transaction is refused; both are caught and logged
LoadInsert ==
    /\ Running("load_data") /\ pc = "ld_insert"
    /\ txn' = IF HasRequiredKeys(rows.value[idx]) /\ ~txn.aborted
              THEN Execute(txn, InsertInto("target_predictions",
                                           InsertValues(rows.value[idx])))
              ELSE txn
    /\ idx' = idx + 1
    /\ pc' = AfterRow(idx, Len(rows.value))
    /\ UNCHANGED <<envVars, schedVars, elapsed, xcom, csv_files, rows,
                   statistics, checkpoint_result, connVars, dbVars, hist>>

\* the server rejects the INSERT of rows[idx]: the error is caught and
\* logged, the transaction is left aborted
LoadInsertRejected ==
    /\ Running("load_data") /\ pc = "ld_insert"
    /\ HasRequiredKeys(rows.value[idx]) /\ ~txn.aborted
    /\ txn' = [txn EXCEPT !.aborted = TRUE]
    /\ idx' = idx + 1
    /\ pc' = AfterRow(idx, Len(rows.value))
    /\ UNCHANGED <<envVars, schedVars, elapsed, xcom, csv_files, rows,
                   statistics, checkpoint_result, connVars, dbVars, hist>>

\* get_conn or the CREATE TABLE raises: nothing in load_data catches it
LoadDbRaise ==
    /\ Running("load_data")
    /\ pc \in {"ld_conn", "ld_create"}
    /\ Raise("load_data", "OperationalError")
    /\ UNCHANGED <<envVars, elapsed, xcom, dbVars, hist>>

\* target_conn.commit()
LoadCommit ==
    /\ Running("load_data") /\ pc = "ld_commit"
    /\ target_predictions' =
           Committed(txn, "target_predictions", target_predictions)
    /\ txn' = EmptyTxn
    /\ pc' = "ld_close"
    /\ UNCHANGED <<envVars, schedVars, elapsed, xcom, csv_files, idx, rows,
                   statistics, checkpoint_result, connVars,
                   feature_statistics, hist>>

\* the stage ends between the last insert and the commit taking effect
\* (leaving the mlflow run, or the commit itself, raises), or the commit
\* is applied and its acknowledgement is lost
LoadCommitRaise ==
    /\ Running("load_data") /\ pc = "ld_commit"
    /\ \E applied \in BOOLEAN :
         target_predictions' =
             IF applied
             THEN Committed(txn, "target_predictions", target_predictions)
             ELSE target_predictions
    /\ Raise("load_data", "OperationalError on commit")
    /\ UNCHANGED <<envVars, elapsed, xcom, feature_statistics, hist>>

\* target_cursor.close(); target_conn.close()
LoadClose ==
    /\ Running("load_data") /\ pc = "ld_close"
    /\ cursor' = "closed" /\ conn' = "closed"
    /\ pc' = "return"
    /\ UNCHANGED <<envVars, schedVars, elapsed, xcom, localVars, dbVars, hist>>

----------------------------------------------------------------------------
(* Specifications *)

InitHist ==
    [arrivals |-> 0, marked |-> {}, lastExtractOk |-> FALSE,
     arrivedSinceList |-> FALSE, noop |-> FALSE, notPassed |-> FALSE,
     commits |-> 0, clears |-> 0, unfinished |-> {}]

InitFile(p) ==
    [id |-> IF p = Path(<<"notes", ".txt">>) THEN 2 ELSE 1, content |-> "F1"]

\* the files of the directory that an earlier run has renamed
MarkedIn(f) == {f[p].id : p \in {q \in DOMAIN f : ~NotChecked(q)}}

Init ==
    /\ \E present \in SUBSET InitialPaths :
         /\ fs = [p \in present |-> InitFile(p)]
         /\ hist = [InitHist EXCEPT !.marked = MarkedIn(fs)]
    /\ nextId = 3
    /\ dagState = "idle"
    /\ ts = [t \in TaskIds |-> "none"]
    /\ tries = [t \in TaskIds |-> 0]
    /\ err = "none"
    /\ pc = "-"
    /\ elapsed = 0
    /\ xcom = None
    /\ csv_files = <<>>
    /\ idx = 0
    /\ rows = None
    /\ statistics = <<>>
    /\ checkpoint_result = "none"
    /\ conn = "none"
    /\ cursor = "none"
    /\ txn = EmptyTxn
    /\ feature_statistics = Absent
    /\ target_predictions = Absent

Next ==
    \/ Trigger
    \/ \E t \in TaskIds : Start(t)
    \/ TaskReturn
    \/ Arrive
    \/ SenseFound \/ SenseSleep \/ SenseTimeout
    \/ ExtractList \/ ExtractRead \/ ExtractReadRaise
    \/ ExtractRename \/ ExtractRenameRaise
    \/ ValidateContext \/ ValidateCheckpoint \/ ValidateDocs \/ ValidateExcept
    \/ StatsPull \/ StatsConnect \/ StatsCreate \/ StatsInsert
    \/ StatsDbRaise \/ StatsCommit \/ StatsCommitRaise \/ StatsClose
    \/ LoadPull \/ LoadConnect \/ LoadCreate \/ LoadInsert
    \/ LoadInsertRejected \/ LoadDbRaise \/ LoadCommit \/ LoadCommitRaise
    \/ LoadClose

Spec == Init /\ [][Next]_vars

\* the scheduler runs a task that is ready and a started callable runs on
FairSpec == Spec /\ WF_vars(Next)

\* the steps of the scheduler and of the callables of a triggered run; the
\* trigger and the arrival of files are the environment's
Progress ==
    \/ \E t \in TaskIds : Start(t)
    \/ TaskReturn
    \/ SenseFound \/ SenseSleep \/ SenseTimeout
    \/ ExtractList \/ ExtractRead \/ ExtractReadRaise
    \/ ExtractRename \/ ExtractRenameRaise
    \/ ValidateContext \/ ValidateCheckpoint \/ ValidateDocs \/ ValidateExcept
    \/ StatsPull \/ StatsConnect \/ StatsCreate \/ StatsInsert
    \/ StatsDbRaise \/ StatsCommit \/ StatsCommitRaise \/ StatsClose
    \/ LoadPull \/ LoadConnect \/ LoadCreate \/ LoadInsert
    \/ LoadInsertRejected \/ LoadDbRaise \/ LoadCommit \/ LoadCommitRaise
    \/ LoadClose

\* a triggered run keeps being scheduled; nothing obliges the environment
FairRun == Spec /\ WF_vars(Progress)

----------------------------------------------------------------------------
(* load_data on an arbitrary batch: the pipeline at the point where        *)
(* load_data is ready to start, with any list of records in the XCom       *)

RowTemplates == {FullRow(1), FullRow(2), PartRow(3)}

Batches == UNION {[1..n -> RowTemplates] : n \in 0..MaxBatch}

InitLoad ==
    /\ fs = [p \in {} |-> InitFile(p)]
    /\ nextId = 3
    /\ dagState = "running"
    /\ ts = [t \in TaskIds |-> IF t = "load_data" THEN "none" ELSE "success"]
    /\ tries = [t \in TaskIds |-> IF t = "load_data" THEN 0 ELSE 1]
    /\ err = "none"
    /\ pc = "-"
    /\ elapsed = 0
    /\ \E b \in Batches : xcom = Some(b)
    /\ csv_files = <<>>
    /\ idx = 0
    /\ rows = None
    /\ statistics = <<>>
    /\ checkpoint_result = "none"
    /\ conn = "none"
    /\ cursor = "none"
    /\ txn = EmptyTxn
    /\ feature_statistics = Absent
    /\ target_predictions = Absent
    /\ hist = InitHist

NextLoad ==
    \/ Start("load_data")
    \/ TaskReturn
    \/ LoadPull \/ LoadConnect \/ LoadCreate \/ LoadInsert
    \/ LoadInsertRejected \/ LoadDbRaise \/ LoadCommit \/ LoadCommitRaise
    \/ LoadClose

SpecLoad == InitLoad /\ [][NextLoad]_vars

----------------------------------------------------------------------------
(* extract_data run again: the task instance is cleared after it has       *)
(* succeeded, which makes the scheduler run extract_data a second time     *)
(* against the same directory                                              *)

ClearExtract ==
    /\ dagState = "running"
    /\ pc = "-"
    /\ ts["extract_data"] = "success"
    /\ ts["validate_data"] = "none"
    /\ hist.clears < MaxClears
    /\ ts' = [ts EXCEPT !["extract_data"] = "none"]
    /\ tries' = [tries EXCEPT !["extract_data"] = 0]
    /\ hist' = [hist EXCEPT !.clears = @ + 1]
    /\ UNCHANGED <<envVars, dagState, err, pc, elapsed, xcom, localVars,
                   connVars, dbVars>>

InitIntake ==
    /\ \E present \in SUBSET InitialPaths :
         /\ present # {}
         /\ fs = [p \in present |-> InitFile(p)]
         /\ hist = [InitHist EXCEPT !.marked = MarkedIn(fs)]
    /\ nextId = 3
    /\ dagState = "running"
    /\ ts = [t \in TaskIds |-> IF t = "sense_file" THEN "success" ELSE "none"]
    /\ tries = [t \in TaskIds |-> IF t = "sense_file" THEN 1 ELSE 0]
    /\ err = "none"
    /\ pc = "-"
    /\ elapsed = 0
    /\ xcom = None
    /\ csv_files = <<>>
    /\ idx = 0
    /\ rows = None
    /\ statistics = <<>>
    /\ checkpoint_result = "none"
    /\ conn = "none"
    /\ cursor = "none"
    /\ txn = EmptyTxn
    /\ feature_statistics = Absent
    /\ target_predictions = Absent

NextIntake ==
    \/ Arrive
    \/ Start("extract_data")
    \/ TaskReturn
    \/ ExtractList \/ ExtractRead \/ ExtractReadRaise
    \/ ExtractRename \/ ExtractRenameRaise
    \/ ClearExtract

SpecIntake == InitIntake /\ [][NextIntake]_vars

----------------------------------------------------------------------------
(* calculate_and_log_statistics on an arbitrary batch: the pipeline at the  *)
(* point where the aggregator is ready to start, with any list of records   *)
(* of one frame in the XCom                                                 *)

StatValues == {0, 1, 2, 5}

\* a record whose features do not all carry the same value
StatRow(v) == [k \in RequiredKeys |-> IF k = "YrSold" THEN 2 * v + 3 ELSE v]

StatBatches ==
    UNION {[1..n -> {StatRow(v) : v \in StatValues}] : n \in 0..MaxBatch}

InitStats ==
    /\ fs = [p \in {} |-> InitFile(p)]
    /\ nextId = 3
    /\ dagState = "running"
    /\ ts = [t \in TaskIds |->
               IF t \in {"calculate_and_log_statistics", "load_data"}
               THEN "none" ELSE "success"]
    /\ tries = [t \in TaskIds |->
                  IF t \in {"calculate_and_log_statistics", "load_data"}
                  THEN 0 ELSE 1]
    /\ err = "none"
    /\ pc = "-"
    /\ elapsed = 0
    /\ \E b \in StatBatches : xcom = Some(b)
    /\ csv_files = <<>>
    /\ idx = 0
    /\ rows = None
    /\ statistics = <<>>
    /\ checkpoint_result = "none"
    /\ conn = "none"
    /\ cursor = "none"
    /\ txn = EmptyTxn
    /\ feature_statistics = Absent
    /\ target_predictions = Absent
    /\ hist = InitHist

NextStats ==
    \/ Start("calculate_and_log_statistics")
    \/ TaskReturn
    \/ StatsPull \/ StatsConnect \/ StatsCreate \/ StatsInsert
    \/ StatsDbRaise \/ StatsCommit \/ StatsCommitRaise \/ StatsClose

SpecStats == InitStats /\ [][NextStats]_vars

----------------------------------------------------------------------------
(* the aggregator of a later run: feature_statistics may hold the rows an   *)
(* earlier run stored                                                       *)

PriorStatistics == {Absent, Table(Describe(<<StatRow(2)>>))}

InitRerun ==
    /\ fs = [p \in {} |-> InitFile(p)]
    /\ nextId = 3
    /\ dagState = "running"
    /\ ts = [t \in TaskIds |->
               IF t \in {"calculate_and_log_statistics", "load_data"}
               THEN "none" ELSE "success"]
    /\ tries = [t \in TaskIds |->
                  IF t \in {"calculate_and_log_statistics", "load_data"}
                  THEN 0 ELSE 1]
    /\ err = "none"
    /\ pc = "-"
    /\ elapsed = 0
    /\ \E b \in StatBatches : xcom = Some(b)
    /\ csv_files = <<>>
    /\ idx = 0
    /\ rows = None
    /\ statistics = <<>>
    /\ checkpoint_result = "none"
    /\ conn = "none"
    /\ cursor = "none"
    /\ txn = EmptyTxn
    /\ feature_statistics \in PriorStatistics
    /\ target_predictions = Absent
    /\ hist = InitHist

SpecRerun == InitRerun /\ [][NextStats]_vars

----------------------------------------------------------------------------
(* Claims *)

Pred(t) == Tasks[IndexOf(t) - 1]

\* C1: a try of a stage starts only when the stage before it in
\* sense_file, extract_data, validate_data, calculate_and_log_statistics,
\* load_data has succeeded and no later stage has started; the two
\* consumers pull 'extracted_rows' only after extract_data has succeeded.
C1_StagesInOrder ==
    [][/\ \A t \in TaskIds :
            (ts[t] # "running" /\ ts'[t] = "running") =>
                /\ IF IndexOf(t) = 1 THEN TRUE ELSE ts[Pred(t)] = "success"
                /\ \A u \in TaskIds : IndexOf(u) > IndexOf(t) => tries[u] = 0
       /\ pc' \in {"st_pull", "ld_pull"} => ts'["extract_data"] = "success"
      ]_vars

C1_Witness ==
    /\ Running("load_data") /\ pc = "ld_pull"
    /\ tries["calculate_and_log_statistics"] = 2
    /\ xcom.has

\* C2: extract_data never selects or reads a file that was renamed with the
\* processed marker, and an extract_data run that follows a completed run
\* with no arrival in between is a no-op: it selects no file, pushes
\* nothing and renames nothing.
C2_IdempotentIntake ==
    [][/\ (pc = "ex_list" /\ pc' # "ex_list") =>
            /\ \A i \in 1..Len(csv_files') :
                   fs[csv_files'[i]].id \notin hist.marked
            /\ (hist.lastExtractOk /\ ~hist.arrivedSinceList) =>
                   /\ csv_files' = <<>>
                   /\ pc' = "return"
                   /\ xcom' = xcom
                   /\ fs' = fs
       /\ (pc = "ex_read" /\ pc' = "ex_rename") =>
              fs[csv_files[idx]].id \notin hist.marked
      ]_vars

\* the second run of extract_data has returned as a no-op after the first
\* one read and renamed a file
C2_Witness ==
    /\ hist.clears = 1
    /\ ts["extract_data"] = "success"
    /\ hist.noop
    /\ ~hist.arrivedSinceList
    /\ \E id \in hist.marked : id >= 3
    /\ ~xcom.has

RECURSIVE RowsOfFiles(_, _)
RowsOfFiles(f, paths) ==
    IF paths = <<>> THEN <<>>
    ELSE preprocess(ReadCsv(f[NewFilePath(Head(paths))].content))
             \o RowsOfFiles(f, Tail(paths))

\* C3: when extract_data returns, 'extracted_rows' holds the transformed
\* rows of every file it processed, in listing order.
C3_BatchHoldsEveryFile ==
    (Running("extract_data") /\ pc = "return" /\ csv_files # <<>>) =>
        xcom = Some(RowsOfFiles(fs, csv_files))

\* C4 as stated, for a run in which extract_data pushed a batch: when the
\* run has finished and validate_data was started in it,
\* calculate_and_log_statistics and load_data were started in it too.
C4_LoadAlwaysFollowsValidation ==
    (/\ dagState \in {"success", "failed"}
     /\ xcom.has
     /\ tries["validate_data"] >= 1) =>
        /\ tries["calculate_and_log_statistics"] >= 1
        /\ tries["load_data"] >= 1

\* C4 amended: validate_data never fails and is never retried, whatever the
\* validation outcome; once started it is followed by the start of
\* calculate_and_log_statistics, and load_data starts once
\* calculate_and_log_statistics has succeeded.
C4_ValidatorNonFatal ==
    /\ [](ts["validate_data"] \notin {"failed", "up_for_retry"})
    /\ Running("validate_data") ~> Running("calculate_and_log_statistics")
    /\ (ts["calculate_and_log_statistics"] = "success")
           ~> (tries["load_data"] >= 1)

C4_Witness ==
    /\ hist.notPassed
    /\ Running("load_data")

Loading(from, to) == Running("load_data") /\ pc = from /\ pc' = to

\* the records of a batch that carry every column of the INSERT, as the
\* tuples the INSERT binds
Loadable(batch) ==
    LET kept == SelectSeq(batch, LAMBDA r : RequiredKeys \subseteq DOMAIN r)
    IN [i \in 1..Len(kept) |-> InsertValues(kept[i])]

\* C5: when load_data commits a batch of which the database accepted every
\* statement, target_predictions gains exactly the rows of the batch that
\* have all required keys, in batch order and each value in its declared
\* column; the rows missing a key are skipped, so the gain is the batch's
\* row count minus the rows missing a key.
C5_SchemaFidelity ==
    [][(Loading("ld_commit", "ld_close") /\ ~txn.aborted) =>
          /\ target_predictions' =
                 Table(target_predictions.rows \o Loadable(rows.value))
          /\ Len(target_predictions'.rows) - Len(target_predictions.rows) =
                 Len(rows.value)
                   - Cardinality({i \in 1..Len(rows.value) :
                                    ~HasRequiredKeys(rows.value[i])})
      ]_vars

\* load_data has committed a batch with a row that misses a key next to
\* rows that have them all
C5_Witness ==
    /\ Running("load_data") /\ pc = "ld_close"
    /\ \E i, j \in 1..Len(rows.value) :
          /\ ~HasRequiredKeys(rows.value[i])
          /\ HasRequiredKeys(rows.value[j])
    /\ Len(target_predictions.rows) = Len(rows.value) - 1
    /\ Len(rows.value) = 3

\* C6: target_predictions changes only in the commit of load_data, and the
\* commit comes after every row of the batch has been attempted; a try of
\* load_data that ends anywhere before the commit leaves the table as it
\* was.
C6_CommitAtomicity ==
    [][target_predictions' # target_predictions =>
          /\ Running("load_data")
          /\ pc = "ld_commit"
          /\ rows.has
          /\ idx = Len(rows.value) + 1
      ]_vars

\* load_data has ended after sending its inserts and before its commit took
\* effect: no row of the batch is visible
C6_Witness ==
    /\ ts["load_data"] \in {"up_for_retry", "failed"}
    /\ err = "OperationalError on commit"
    /\ xcom.has /\ \E i \in 1..Len(xcom.value) : HasRequiredKeys(xcom.value[i])
    /\ target_predictions = Absent

\* C7: a run in which extract_data found every *.csv file of the directory
\* already marked and returned early is not failed by a later stage for
\* want of a batch.
C7_ReexecutionTolerated ==
    (/\ hist.noop
     /\ \E p \in DOMAIN fs : GlobCsv(p)
     /\ \A p \in DOMAIN fs : GlobCsv(p) => ~NotChecked(p)) =>
        ~(dagState = "failed" /\ err \in {"ValueError", "TypeError"})

\* C8: no database stage has ended with its connection or its cursor
\* still open.
C8_ConnectionsReleased ==
    (~Running("calculate_and_log_statistics") /\ ~Running("load_data")) =>
        (conn # "open" /\ cursor # "open")

RECURSIVE Repeat(_, _)
Repeat(s, n) == IF n = 0 THEN <<>> ELSE s \o Repeat(s, n - 1)

\* C9 as stated: after a run that reaches Done, feature_statistics has
\* gained exactly one row per feature column of the batch.
C9_OneRowPerFeature ==
    dagState = "success" =>
        Len(feature_statistics.rows) = Len(Columns(xcom.value))

\* C9 amended: after a run that reaches Done, feature_statistics has gained,
\* for each commit the aggregator made in the run, exactly one row
\* (name, mean, variance) per feature column of the batch: one set when the
\* stage ran once, and a second, equal set when a try whose commit had
\* taken effect failed and the stage was retried.
C9_OneRowPerFeaturePerCommit ==
    dagState = "success" =>
        /\ hist.commits \in 1..tries["calculate_and_log_statistics"]
        /\ feature_statistics =
               Table(Repeat(Describe(xcom.value), hist.commits))
        /\ Len(Describe(xcom.value)) = Len(Columns(xcom.value))
        /\ (tries["calculate_and_log_statistics"] = 1 =>
               Len(feature_statistics.rows) = Len(Columns(xcom.value)))

\* a run has reached Done with the aggregator retried
C9_Witness ==
    /\ dagState = "success"
    /\ tries["calculate_and_log_statistics"] = 2
    /\ hist.commits = 1
    /\ Len(feature_statistics.rows) = Len(KeySeq)

\* C10: sense_file succeeds only when the directory holds an unprocessed
\* *.csv file.
C10_SensorNeedsNewCsv ==
    (Running("sense_file") /\ pc = "return") =>
        \E p \in DOMAIN fs : Qualifies(p)

Later(t) == {u \in TaskIds : IndexOf(u) > IndexOf(t)}

\* C11: the poke that finds nothing after the maximum wait has elapsed ends
\* sense_file in failure and aborts the run: extract_data and every later
\* stage have never started and are upstream_failed, nothing was pushed and
\* no file was renamed; from then on no stage starts and no file changes.
C11_TimeoutAbortsRun ==
    [][/\ (/\ Running("sense_file") /\ pc = "poke" /\ pc' # pc
           /\ ~FileSensorPoke(fs) /\ elapsed > timeout /\ fs' = fs) =>
              /\ ts'["sense_file"] = "failed"
              /\ dagState' = "failed"
              /\ \A u \in Later("sense_file") :
                     tries'[u] = 0 /\ ts'[u] = "upstream_failed"
              /\ ~xcom'.has
              /\ hist'.marked = {}
       /\ ts["sense_file"] = "failed" =>
              /\ ts' = ts /\ tries' = tries /\ dagState' = dagState
              /\ fs' = fs /\ xcom' = xcom /\ hist'.marked = hist.marked
      ]_vars

\* sense_file has timed out on an empty directory
C11_Witness ==
    /\ ts["sense_file"] = "failed"
    /\ err = "AirflowSensorTimeout"
    /\ elapsed > timeout
    /\ DOMAIN fs = {}
    /\ tries["sense_file"] = 1

\* the values of feature k over all records of a batch
FeatureValues(batch, k) == [j \in 1..Len(batch) |-> batch[j][k]]

\* n^2 times the sum of the squared deviations of xs from their mean
SquaredDeviations(xs) ==
    SeqSum([j \in 1..Len(xs) |->
               (Len(xs) * xs[j] - SeqSum(xs)) * (Len(xs) * xs[j] - SeqSum(xs))])

\* C12: every row stored in feature_statistics carries, for its feature, the
\* arithmetic mean over all rows of the batch and the sample variance (sum
\* of squared deviations from the mean over n - 1; undefined for a single
\* row); a stage that succeeded has stored a row for every feature.
C12_StatisticsCorrect ==
    /\ \A i \in 1..Len(feature_statistics.rows) :
         LET r == feature_statistics.rows[i]
             xs == FeatureValues(xcom.value, r.feature_name)
             n == Len(xs)
         IN /\ r.mean.den > 0
            /\ r.mean.num * n = SeqSum(xs) * r.mean.den
            /\ IF n < 2
               THEN r.variance = NaN
               ELSE /\ r.variance.den > 0
                    /\ r.variance.num * (n * n * (n - 1)) =
                           SquaredDeviations(xs) * r.variance.den
    /\ ts["calculate_and_log_statistics"] = "success" =>
         {feature_statistics.rows[i].feature_name :
             i \in 1..Len(feature_statistics.rows)} = RequiredKeys

\* the aggregator has stored the statistics of a batch of three rows whose
\* values differ
C12_Witness ==
    /\ ts["calculate_and_log_statistics"] = "success"
    /\ Len(xcom.value) = 3
    /\ \E i \in 1..Len(feature_statistics.rows) :
         LET r == feature_statistics.rows[i]
         IN /\ r.feature_name = "YrSold"
            /\ r.variance # NaN /\ r.variance.num > 0
            /\ r.mean.num = 19

\* C13: a file is renamed only by extract_data, after the rows read from it
\* were transformed and pushed; when the read or the transform raises, or
\* the stage stops between the push and the rename, the error propagates
\* (the try ends up_for_retry or failed), the file stays in the directory
\* unmarked, and the next listing of extract_data selects it again.
C13_RenameAfterPush ==
    [][/\ hist'.marked # hist.marked =>
              /\ Running("extract_data") /\ pc = "ex_rename"
              /\ Readable(fs[csv_files[idx]].content)
              /\ xcom = Some(preprocess(ReadCsv(fs[csv_files[idx]].content)))
              /\ hist'.marked = hist.marked \cup {fs[csv_files[idx]].id}
       /\ (/\ Running("extract_data") /\ pc \in {"ex_read", "ex_rename"}
           /\ err = "none" /\ err' # "none") =>
              /\ ts'["extract_data"] \in {"up_for_retry", "failed"}
              /\ fs' = fs
              /\ csv_files[idx] \in DOMAIN fs'
              /\ Qualifies(csv_files[idx])
              /\ fs'[csv_files[idx]].id \notin hist'.marked
              /\ fs'[csv_files[idx]].id \in hist'.unfinished
       /\ (pc = "ex_list" /\ pc' # pc) =>
              \A id \in hist.unfinished :
                  \E i \in 1..Len(csv_files') : fs[csv_files'[i]].id = id
      ]_vars

\* the retry of extract_data is about to read again the file on which its
\* first try stopped
C13_Witness ==
    /\ Running("extract_data") /\ pc = "ex_read"
    /\ tries["extract_data"] = 2
    /\ fs[csv_files[idx]].id \in hist.unfinished

\* C14: when the database rejected the INSERT of one row of the batch, the
\* commit of load_data makes every other row that has the required keys
\* visible in target_predictions.
C14_RejectedRowNonFatal ==
    [][(Loading("ld_commit", "ld_close") /\ txn.aborted) =>
          Len(target_predictions'.rows) - Len(target_predictions.rows) =
              Cardinality({i \in 1..Len(rows.value) :
                              HasRequiredKeys(rows.value[i])}) - 1
      ]_vars

\* C15: feature_statistics is append-only: once it exists it keeps existing
\* and every row it holds stays where it is, unchanged; it changes only in
\* the commit of the aggregator, which appends one row per feature of the
\* batch, also when the table already held rows of an earlier run and when
\* the aggregator runs a second time on the same batch.
C15_AppendOnly ==
    [][/\ feature_statistics.exists => feature_statistics'.exists
       /\ Len(feature_statistics'.rows) >= Len(feature_statistics.rows)
       /\ SubSeq(feature_statistics'.rows, 1, Len(feature_statistics.rows)) =
              feature_statistics.rows
       /\ feature_statistics' # feature_statistics =>
              /\ Running("calculate_and_log_statistics") /\ pc = "st_commit"
              /\ feature_statistics' =
                     Table(feature_statistics.rows \o Describe(xcom.value))
      ]_vars

\* on a table that held the rows of an earlier run the aggregator has
\* committed the statistics of the same batch twice
C15_Witness ==
    /\ hist.commits = 2
    /\ Len(xcom.value) = 2
    /\ feature_statistics =
           Table(Describe(<<StatRow(2)>>) \o Describe(xcom.value)
                     \o Describe(xcom.value))

\* C16: a stage is attempted at most twice; a try of a stage that ends with
\* the error propagating is followed by one retry when it was the first
\* try, and fails the run when it was the second: every later stage is
\* then upstream_failed without having started, and nothing starts in a
\* failed run.
C16_OneRetryThenFail ==
    [][/\ \A t \in TaskIds : tries'[t] <= 2
       /\ \A t \in TaskIds \ {"sense_file"} :
             (Running(t) /\ ~Running(t)' /\ ts'[t] # "success") =>
                 IF tries[t] = 1
                 THEN ts'[t] = "up_for_retry" /\ dagState' = "running"
                 ELSE /\ ts'[t] = "failed"
                      /\ dagState' = "failed"
                      /\ \A u \in Later(t) :
                             ts'[u] = "upstream_failed" /\ tries'[u] = 0
       /\ dagState = "failed" => (ts' = ts /\ tries' = tries)
      ]_vars

\* both tries of the aggregator failed on the database: the run is failed
\* and load_data was not started
C16_Witness ==
    /\ dagState = "failed"
    /\ ts["calculate_and_log_statistics"] = "failed"
    /\ tries["calculate_and_log_statistics"] = 2
    /\ err = "OperationalError"
    /\ ts["load_data"] = "upstream_failed" /\ tries["load_data"] = 0

\* position of the run on Idle -> Sensing -> Extracting -> Validating ->
\* Aggregating -> Loading -> Done, with Failed as the exit
Done == Len(Tasks) + 1
Failed == Len(Tasks) + 2

Phase ==
    CASE dagState = "success" -> Done
      [] dagState = "failed" -> Failed
      [] OTHER -> Cardinality({t \in TaskIds : tries[t] >= 1})

\* C17: a triggered run terminates: it reaches Done or Failed; it moves
\* only along Idle -> Sensing -> Extracting -> Validating -> Aggregating ->
\* Loading -> Done or to Failed, and Done and Failed are final; no stage is
\* left running: a started stage runs to completion or failure.
C17_RunTerminates ==
    /\ (dagState = "running") ~>
           (dagState \in {"success", "failed"} /\ \A t \in TaskIds : ~Running(t))
    /\ [][/\ Phase' \in {Phase, Phase + 1, Failed}
          /\ Phase \in {Done, Failed} => Phase' = Phase
          /\ \A i \in 1..Len(Tasks) :
                (Phase' = i /\ Phase' # Phase) =>
                    (tries'[Tasks[i]] = 1 /\ Running(Tasks[i])')
         ]_vars

\* a run has reached Done after a file arrived and a stage was retried
C17_Witness ==
    /\ dagState = "success"
    /\ \E t \in TaskIds : tries[t] = 2
    /\ hist.arrivals >= 1

\* the files that were renamed with the processed marker during the run:
\* the marked files that arrived after the directory was set up
MarkedInRun == {p \in DOMAIN fs : fs[p].id \in hist.marked /\ fs[p].id >= 3}

\* C18: in a run that has reached Done, the batch load_data pulled holds the
\* transformed rows of every file that was renamed with the processed
\* marker during the run.
C18_NoMarkedFileLost ==
    dagState = "success" =>
        \A p \in MarkedInRun :
            LET rs == preprocess(ReadCsv(fs[p].content))
            IN \A i \in 1..Len(rs) :
                   \E j \in 1..Len(xcom.value) : xcom.value[j] = rs[i]

====
